---- MODULE Spec2Model ----
(***************************************************************************)
(* A model of pdf_object_hasher.py: the ingestion pipeline process_pdf,    *)
(* its idempotency gate (in-flight marker, processed.tsv, completion       *)
(* stamp), the ledger objects.tsv with its legacy migration, the dedup     *)
(* store hashed-objects/, hash-count.tsv, and the scan / polling loop.     *)
(*                                                                         *)
(* Text is modelled as text: a string is a sequence of characters (one-    *)
(* character strings; a digest or a column title is one atom), a file is a *)
(* sequence of lines, each line carrying its "\n".  split, join and rstrip *)
(* are computed as Python computes them.                                   *)
(***************************************************************************)
EXTENDS Naturals, Integers, Sequences, FiniteSets, TLC

TAB == "\t"
NL == "\n"

(***************************************************************************)
(* Python string operations                                                *)
(***************************************************************************)
\* F(x), with x evaluated once: an operator's argument is evaluated every time
\* the operator's body uses it, a bound variable only once
With(x, F(_)) == CHOOSE y \in {F(v) : v \in {x}} : TRUE

\* the least index from i on where s has sep, Len(s) + 1 when there is none
Find(s, sep, i) ==
    CHOOSE j \in i..(Len(s) + 1) :
        /\ j = Len(s) + 1 \/ s[j] = sep
        /\ \A k \in i..(j - 1) : s[k] # sep

RECURSIVE SplitFrom(_, _, _)
\* the fields of s from index i on
SplitFrom(s, sep, i) ==
    With(Find(s, sep, i), LAMBDA j :
        IF j = Len(s) + 1 THEN <<SubSeq(s, i, Len(s))>>
        ELSE <<SubSeq(s, i, j - 1)>> \o SplitFrom(s, sep, j + 1))

\* str.split(sep): the fields between the separators; "" gives one empty field
split(str, sep) == With(str, LAMBDA s : SplitFrom(s, sep, 1))

RECURSIVE join(_, _)
\* sep.join(parts)
join(sep, seq) ==
    With(seq, LAMBDA parts :
        IF parts = <<>> THEN <<>>
        ELSE IF Len(parts) = 1 THEN parts[1]
        ELSE parts[1] \o <<sep>> \o join(sep, Tail(parts)))

\* str.rstrip(ch): every trailing ch removed
rstrip(str, ch) ==
    With(str, LAMBDA s :
        SubSeq(s, 1, CHOOSE k \in 0..Len(s) :
                        /\ \A j \in (k + 1)..Len(s) : s[j] = ch
                        /\ k = 0 \/ s[k] # ch))

\* ch * n
Repeat(ch, n) == [i \in 1..n |-> ch]

\* str.replace(old, new) for one-character old and new
replace(str, old, new) ==
    With(str, LAMBDA s : [i \in 1..Len(s) |-> IF s[i] = old THEN new ELSE s[i]])

\* str.startswith(prefix)
startswith(str, prefix) ==
    With(str, LAMBDA s : Len(s) >= Len(prefix) /\ SubSeq(s, 1, Len(prefix)) = prefix)

\* str.lower(), on the letters the model's names use
LowerChar(c) ==
    CASE c = "P" -> "p" [] c = "D" -> "d" [] c = "F" -> "f" [] c = "N" -> "n"
      [] c = "G" -> "g" [] c = "J" -> "j" [] c = "T" -> "t" [] OTHER -> c

lower(str) == With(str, LAMBDA s : [i \in 1..Len(s) |-> LowerChar(s[i])])

\* the code point order of the characters the model's file names use
CharCode(c) ==
    CASE c = " " -> 32 [] c = "." -> 46 [] c = "/" -> 47
      [] c = "D" -> 68 [] c = "F" -> 70 [] c = "G" -> 71 [] c = "N" -> 78
      [] c = "P" -> 80 [] c = "_" -> 95
      [] c = "a" -> 97 [] c = "b" -> 98 [] c = "c" -> 99 [] c = "d" -> 100
      [] c = "e" -> 101 [] c = "f" -> 102 [] c = "g" -> 103 [] c = "h" -> 104
      [] c = "i" -> 105 [] c = "j" -> 106 [] c = "n" -> 110 [] c = "o" -> 111
      [] c = "p" -> 112 [] c = "r" -> 114 [] c = "s" -> 115 [] c = "t" -> 116
      [] c = "x" -> 120
      \* a digest atom sorts as its first hex digit
      [] c = "O1" -> 49 [] c = "O2" -> 50 [] c = "O3" -> 51 [] OTHER -> 127

\* a < b for str: a ends first, or has the lesser character where they first differ
StrLess(a, b) ==
    \E i \in 1..(Len(a) + 1) :
        /\ i <= Len(b)
        /\ SubSeq(a, 1, i - 1) = SubSeq(b, 1, i - 1)
        /\ i = Len(a) + 1 \/ CharCode(a[i]) < CharCode(b[i])

RECURSIVE sorted(_)
\* sorted(S) of a set of strings
sorted(set) ==
    With(set, LAMBDA S :
        IF S = {} THEN <<>>
        ELSE With(CHOOSE a \in S : \A b \in S \ {a} : StrLess(a, b),
                  LAMBDA m : <<m>> \o sorted(S \ {m})))

\* the index of the last "." of name, 0 when there is none
LastDot(name) ==
    CHOOSE i \in 0..Len(name) :
        /\ i = 0 \/ name[i] = "."
        /\ \A j \in (i + 1)..Len(name) : name[j] # "."

\* pathlib's Path.suffix: from the last dot on, unless the dot leads or ends the name
suffix(str) ==
    With(str, LAMBDA name :
        With(LastDot(name), LAMBDA i :
            IF 1 < i /\ i < Len(name) THEN SubSeq(name, i, Len(name)) ELSE <<>>))

\* os.path.basename
basename(s) ==
    With(split(s, "/"), LAMBDA parts : parts[Len(parts)])

\* PDF_EXT_RE.search(name): the name ends in .pdf, whatever the case
PDF_EXT_RE_search(str) ==
    With(str, LAMBDA name :
        /\ Len(name) >= 4
        /\ lower(SubSeq(name, Len(name) - 3, Len(name))) = <<".", "p", "d", "f">>)

\* PDF_EXT_RE.sub("", name)
PDF_EXT_RE_strip(str) ==
    With(str, LAMBDA name :
        IF PDF_EXT_RE_search(name) THEN SubSeq(name, 1, Len(name) - 4) ELSE name)

safe_name(pdf_name) ==
    replace(replace(basename(PDF_EXT_RE_strip(pdf_name)), " ", "_"), "/", "_")

\* a variant that is content with three tokens and counts them from MCRO
parse_mcro_fields_from_0(pdf_name) ==
    IF ~startswith(pdf_name, <<"M", "C", "R", "O", "_">>) THEN <<<<>>, <<>>, <<>>>>
    ELSE With(split(PDF_EXT_RE_strip(pdf_name), "_"), LAMBDA parts :
             IF Len(parts) >= 3 THEN <<parts[1], parts[2], parts[3]>>
             ELSE <<<<>>, <<>>, <<>>>>)

parse_mcro_fields(pdf_name) ==
    IF ~startswith(pdf_name, <<"M", "C", "R", "O", "_">>) THEN <<<<>>, <<>>, <<>>>>
    ELSE With(split(PDF_EXT_RE_strip(pdf_name), "_"), LAMBDA parts :
             IF Len(parts) >= 4 THEN <<parts[2], parts[3], parts[4]>>
             ELSE <<<<>>, <<>>, <<>>>>)

(***************************************************************************)
(* The ledger's headers                                                    *)
(***************************************************************************)
OBJECTS_HEADER ==
    join(TAB, << <<"Case Number">>, <<"Filing Type">>, <<"Filing Date">>,
                 <<"SHA256 Hash Value">>, <<"Pdf File Name">>,
                 <<"Pdf Internal Object Path">>, <<"Object Type">>, <<"Font Name">>,
                 <<"Sig #1 Common Name">>, <<"Sig #2 Common Name">>, <<"Author">>,
                 <<"Creator">>, <<"Sig #3 Common Name">>, <<"Sig #4 Common Name">>,
                 <<"Sig #1 Signing Time">>, <<"Sig #2 Signing Time">>,
                 <<"Sig #3 Signing Time">>, <<"Sig #4 Signing Time">>,
                 <<"Sig #1 Byte Ranges">>, <<"Sig #2 Byte Ranges">>,
                 <<"Sig #3 Byte Ranges">>, <<"Sig #4 Byte Ranges">> >>)

OLD_HEADER_5 ==
    join(TAB, << <<"SHA256 Hash Value">>, <<"Pdf File Name">>,
                 <<"Pdf Internal Object Path">>, <<"Object Type">>, <<"Font Name">> >>)

(***************************************************************************)
(* The scenario: the documents of pdf/, what mutool extracts from each,    *)
(* and a ledger left by the 5-column version of the program                *)
(***************************************************************************)
Procs == {"p1", "p2"}

\* pdf/ holds "a b.pdf" and "a_b.pdf" (one extraction directory, a_b), "c.PDF"
\* (the bytes of "a b.pdf" under another name) and a file that is no PDF
PdfAB == <<"a", " ", "b", ".", "p", "d", "f">>
PdfA_B == <<"a", "_", "b", ".", "p", "d", "f">>
PdfC == <<"c", ".", "P", "D", "F">>
NotPdf == <<"n", ".", "t", "x", "t">>

\* the two documents D1 and D2 under the first two names, either way round
PdfDirs ==
    {(PdfAB :> "D1") @@ (PdfA_B :> "D2") @@ (PdfC :> "D1") @@ (NotPdf :> "D3"),
     (PdfAB :> "D2") @@ (PdfA_B :> "D1") @@ (PdfC :> "D1") @@ (NotPdf :> "D3")}

\* hashlib.sha256 on the bytes of the scenario: one digest per content
Sha256Hex(data) ==
    CASE data = "D1" -> <<"H1">> [] data = "D2" -> <<"H2">> [] data = "D3" -> <<"H3">>
      [] data = "B1" -> <<"O1">> [] data = "B2" -> <<"O2">> [] OTHER -> <<"O3">>

\* a file name whose extension, the dot counted, has 12 characters
LongExtName == <<"x", ".", "a", "a", "a", "a", "a", "a", "a", "a", "a", "a", "a">>

\* the files `mutool extract` writes for a document: file name -> bytes; the two
\* documents share an image (under two extensions) and a font (one of the names
\* with an extension too long to keep)
MutoolOutput(content) ==
    CASE content = "D1" ->
            {[fn |-> <<"i", ".", "P", "N", "G">>, data |-> "B1"],
             [fn |-> <<"f", ".", "t", "t", "f">>, data |-> "B2"]}
      [] content = "D2" ->
            {[fn |-> <<"i", ".", "j", "p", "g">>, data |-> "B1"],
             [fn |-> LongExtName, data |-> "B2"]}
      [] OTHER -> {}

\* a ledger of the 5-column schema with one row, and the hash-count.tsv that
\* went with it
LegacyRow == join(TAB, << <<"O3">>, <<"x">>, <<"x", "/", "i">>, <<>>, <<>> >>)
LegacyLedger == << OLD_HEADER_5 \o <<NL>>, LegacyRow \o <<NL>> >>
LegacyHashCount == << <<"O3", TAB, "1", NL>> >>

\* a ledger whose first line is neither the 22-column nor the 5-column header,
\* with one row beneath it
CustomLedger == << <<"k">> \o <<NL>>, <<"v">> \o <<TAB>> \o <<"w">> \o <<NL>> >>

\* bounds of the model
MaxFails == 1
MaxKills == 1
MaxSize == 2
MaxRows == 2
MaxTokens == 4
MaxLines == 3
MaxBlock == 5

\* wait_for_quiet_file(path, tries=10, ...)
Tries == 10

VARIABLES
    pdfDir,        \* pdf/: file name -> bytes (a document is its bytes)
    objDir,        \* pdf-objects/: the extracted files, [dir, fn, data]
    stamps,        \* pdf-objects/<dir>/.processed.sha: [dir, text]
    hashedDir,     \* hashed-objects/: the file names
    objectsTsv,    \* objects.tsv: its lines (<<>>: absent or empty)
    objectsTmp,    \* objects.tsv.tmp: its lines
    hashCountTsv,  \* hash-count.tsv: its lines
    processedTsv,  \* processed.tsv: its lines
    inflight,      \* .locks/inflight/: the file names
    pc,            \* where each invocation of the program is
    loc,           \* each invocation's local variables
    live,          \* the invocations that run in this scenario
    sizes,         \* the sizes a poll of a document can show in this scenario
    vanishes,      \* whether a poll can find the document absent
    fails,         \* exceptions raised so far
    kills,         \* invocations killed so far
    lastRun,       \* history: how the most recent process_pdf run ended (or how
                   \* far a migration had written when it was killed)
    runStart,      \* history: what each run found when it began
    rowRun,        \* history: for each line of objects.tsv, the run that wrote it
    runSha,        \* history: the document hash of each run that went past the gate
    firstStored,   \* history: <<hash, file name>> of the first object stored in
                   \* the store under each hash
    ledger0,       \* history: objects.tsv as the program first found it
    call           \* a call of one of the program's parsing functions: its
                   \* argument, and its result once it has returned

fsVars == <<pdfDir, objDir, stamps, hashedDir, objectsTsv, objectsTmp,
            hashCountTsv, processedTsv, inflight>>
histVars == <<lastRun, runStart, rowRun, runSha, firstStored, ledger0>>
envVars == <<live, sizes, vanishes, call>>
vars == <<fsVars, pc, loc, envVars, fails, kills, histVars>>

NoRun == [pdf |-> <<>>, sha |-> <<>>, outcome |-> "none", rows |-> 0, recs |-> 0,
          stamped |-> FALSE, run |-> 0]
NoStart == [rows |-> 0, recs |-> 0, stamps |-> {}]
NoCall == [fn |-> "none"]

\* the locals of main, scan_once, wait_for_quiet_file and process_pdf
InitLoc == [todo |-> <<>>, pdf |-> <<>>, sha |-> <<>>,
            i |-> 0, last |-> -1, quiet |-> FALSE, processed_shas |-> {},
            walk |-> <<>>, fn |-> <<>>, raised |-> "", run |-> 0]

\* a working directory before the program's first run, but for pdf/ and objects.tsv
InitRest ==
    /\ objDir = {}
    /\ stamps = {}
    /\ hashedDir = {}
    /\ objectsTmp = <<>>
    /\ processedTsv = <<>>
    /\ inflight = {}
    /\ pc = [p \in Procs |-> "off"]
    /\ loc = [p \in Procs |-> InitLoc]
    /\ fails = 0
    /\ kills = 0
    /\ lastRun = NoRun
    /\ runStart = [p \in Procs |-> NoStart]
    /\ rowRun = [i \in 1..Len(objectsTsv) |-> 0]
    /\ runSha = <<>>
    /\ firstStored = {}
    /\ ledger0 = objectsTsv

\* a fresh working directory, one of the 5-column version, or one whose ledger
\* has a header of the user's own; one invocation of the program at a time, on
\* documents that are at rest
Init ==
    /\ pdfDir \in PdfDirs
    /\ \/ objectsTsv = <<>> /\ hashCountTsv = <<>>
       \/ objectsTsv = LegacyLedger /\ hashCountTsv = LegacyHashCount
       \/ objectsTsv = CustomLedger /\ hashCountTsv = <<>>
    /\ InitRest
    /\ live = {"p1"}
    /\ sizes = {1}
    /\ vanishes = FALSE
    /\ call = NoCall

(***************************************************************************)
(* The functions of the program, on the files above                        *)
(***************************************************************************)
IsSpace(c) == c \in {" ", TAB, NL}

\* str.strip(): from the first character that is no white space to the last
strip(str) ==
    With(str, LAMBDA s :
        IF \A i \in 1..Len(s) : IsSpace(s[i]) THEN <<>>
        ELSE SubSeq(s,
                    CHOOSE a \in 1..Len(s) :
                        ~IsSpace(s[a]) /\ \A i \in 1..(a - 1) : IsSpace(s[i]),
                    CHOOSE b \in 1..Len(s) :
                        ~IsSpace(s[b]) /\ \A i \in (b + 1)..Len(s) : IsSpace(s[i])))

Digits == <<"0", "1", "2", "3", "4", "5", "6", "7", "8", "9">>

RECURSIVE FormatInt(_)
\* f"{c}" of a count
FormatInt(n) ==
    With(n, LAMBDA c :
        IF c < 10 THEN <<Digits[c + 1]>>
        ELSE FormatInt(c \div 10) \o <<Digits[(c % 10) + 1]>>)

\* INFLIGHT_DIR / f"{sha}.lock"
LockName(sha) == sha \o <<".", "l", "o", "c", "k">>

\* a variant that never sees a marker
has_inflight_never(sha) == FALSE

has_inflight(sha) == LockName(sha) \in inflight

mark_inflight(sha) == inflight \cup {LockName(sha)}

\* a variant that leaves the marker
clear_inflight_keep(sha) == inflight

clear_inflight(sha) == inflight \ {LockName(sha)}

\* the first column of a line of processed.tsv, "" for an empty line
first_column(str) ==
    With(rstrip(str, NL), LAMBDA line :
        IF line = <<>> THEN <<>> ELSE split(line, TAB)[1])

\* the first column of every line of processed.tsv that has one
load_processed_shas ==
    {first_column(processedTsv[i]) : i \in 1..Len(processedTsv)} \ {<<>>}

\* processed.tsv with the record of sha appended (size, mtime and the clock are atoms)
record_processed(sha, pdf_name) ==
    Append(processedTsv,
           sha \o <<TAB>> \o pdf_name \o <<TAB, "size", TAB, "mtime", TAB, "utcnow", NL>>)

\* a variant that is content with stamp.exists()
stamp_matches_any(dir, sha) == \E st \in stamps : st.dir = dir

\* stamp.exists() and stamp.read_text().strip() == sha
stamp_matches(dir, sha) ==
    \E st \in stamps : st.dir = dir /\ strip(st.text) = sha

\* stamp.write_text(sha + "\n")
write_stamp(dir, sha) ==
    {st \in stamps : st.dir # dir} \cup {[dir |-> dir, text |-> sha \o <<NL>>]}

\* the lower-cased extension of an extracted file, dropped when longer than 11
object_ext(fn) ==
    With(lower(suffix(fn)), LAMBDA ext : IF Len(ext) > 11 THEN <<>> ELSE ext)

FONT_EXTS ==
    {<<".", "t", "t", "f">>, <<".", "o", "t", "f">>, <<".", "t", "t", "c">>,
     <<".", "w", "o", "f", "f">>, <<".", "w", "o", "f", "f", "2">>,
     <<".", "p", "f", "b">>, <<".", "p", "f", "a">>}

\* otfinfo and fc-scan are optional tools: absent here (run_cmd gives rc 127), so
\* the font name is blank
get_font_name(fn) == <<>>

\* pdfsig and exiftool are optional tools: absent here, so every field is blank
per_pdf_sig_and_meta ==
    [SIG1_CN |-> <<>>, SIG2_CN |-> <<>>, SIG3_CN |-> <<>>, SIG4_CN |-> <<>>,
     SIG1_TIME |-> <<>>, SIG2_TIME |-> <<>>, SIG3_TIME |-> <<>>, SIG4_TIME |-> <<>>,
     SIG1_RANGE |-> <<>>, SIG2_RANGE |-> <<>>, SIG3_RANGE |-> <<>>, SIG4_RANGE |-> <<>>,
     AUTHOR |-> <<>>, CREATOR |-> <<>>]

\* the line process_pdf appends to objects.tsv for the file fn of directory dir
ledger_row(pdf_name, dir, fn, h) ==
    With(parse_mcro_fields(pdf_name), LAMBDA mcro :
    With(object_ext(fn), LAMBDA ext :
    LET rel == dir \o <<"/">> \o fn
        font_name == IF ext \in FONT_EXTS THEN get_font_name(fn) ELSE <<>>
        sigmeta == per_pdf_sig_and_meta
    IN  join(TAB, <<mcro[1], mcro[2], mcro[3], h, pdf_name, rel, ext, font_name,
                    sigmeta.SIG1_CN, sigmeta.SIG2_CN, sigmeta.AUTHOR, sigmeta.CREATOR,
                    sigmeta.SIG3_CN, sigmeta.SIG4_CN,
                    sigmeta.SIG1_TIME, sigmeta.SIG2_TIME, sigmeta.SIG3_TIME,
                    sigmeta.SIG4_TIME,
                    sigmeta.SIG1_RANGE, sigmeta.SIG2_RANGE, sigmeta.SIG3_RANGE,
                    sigmeta.SIG4_RANGE>>) \o <<NL>>))

\* a variant that opens objects.tsv with "w"
append_line_truncating(lines, line) == <<line>>

\* with OBJECTS_TSV.open("a", ...) as f: f.write(line)
append_line(lines, line) == Append(lines, line)

\* a variant that looks for the bare name only
store_has_bare(sha) == sha \in hashedDir

\* base.exists() or some file matches the glob f"{sha}.*"
store_has(sha) ==
    \/ sha \in hashedDir
    \/ \E f \in hashedDir : startswith(f, sha \o <<".">>)

\* Path.with_suffix
with_suffix(str, suf) ==
    With(str, LAMBDA name : SubSeq(name, 1, Len(name) - Len(suffix(name))) \o suf)

\* dest_dir / f"{sha}{ext}"
store_dest(fn, sha) == sha \o object_ext(fn)

\* dest.with_suffix(dest.suffix + ".tmp")
store_tmp(str) ==
    With(str, LAMBDA dest : with_suffix(dest, suffix(dest) \o <<".", "t", "m", "p">>))

\* column 4 of a line of objects.tsv, "" when the line has fewer than 4 columns
hash_column(line) ==
    With(split(rstrip(line, NL), TAB), LAMBDA parts :
        IF Len(parts) >= 4 THEN parts[4] ELSE <<>>)

\* Counter of column 4 over the lines after the first
hash_counter(lines) ==
    With([i \in 2..Len(lines) |-> hash_column(lines[i])], LAMBDA col :
        {<<k, Cardinality({i \in DOMAIN col : col[i] = k})>> :
            k \in {col[i] : i \in DOMAIN col} \ {<<>>}})

RECURSIVE sorted_counts(_)
\* sorted(counts.items(), key=lambda kv: (-kv[1], kv[0]))
sorted_counts(set) ==
    With(set, LAMBDA items :
        IF items = {} THEN <<>>
        ELSE With(CHOOSE a \in items : \A b \in items \ {a} :
                      a[2] > b[2] \/ (a[2] = b[2] /\ StrLess(a[1], b[1])),
                  LAMBDA m : <<m>> \o sorted_counts(items \ {m})))

\* the lines update_hash_counts writes to hash-count.tsv
update_hash_counts(lines) ==
    With(sorted_counts(hash_counter(lines)), LAMBDA rows :
        [i \in 1..Len(rows) |-> rows[i][1] \o <<TAB>> \o FormatInt(rows[i][2]) \o <<NL>>])

\* a variant that opens the temporary file with "a"
open_a(lines) == lines

\* tmp.open("w", ...): what the file held before is gone
open_w(lines) == <<>>

\* a variant that pads with 13 tabs
migrated_line_13(line) ==
    <<TAB, TAB, TAB>> \o rstrip(line, NL) \o Repeat(TAB, 13) \o <<NL>>

\* ensure_layout's rewrite of one line of a legacy ledger
migrated_line(line) ==
    <<TAB, TAB, TAB>> \o rstrip(line, NL) \o Repeat(TAB, 14) \o <<NL>>

\* all that ensure_layout writes to objects.tsv.tmp for a legacy ledger
migrated_file(lines) ==
    <<OBJECTS_HEADER \o <<NL>>>> \o [i \in 1..(Len(lines) - 1) |-> migrated_line(lines[i + 1])]

\* ".processed.sha"
StampName == <<".", "p", "r", "o", "c", "e", "s", "s", "e", "d", ".", "s", "h", "a">>

\* the names os.walk(outdir) yields for the directory dir, the stamp among them
\* (the order of a directory listing is the file system's; the model takes the
\* sorted one)
walk_files(dir) ==
    sorted({f.fn : f \in {g \in objDir : g.dir = dir}}
           \cup {StampName : st \in {t \in stamps : t.dir = dir}})

\* the bytes of the file fn of directory dir
object_data(dir, fn) == (CHOOSE f \in objDir : f.dir = dir /\ f.fn = fn).data

(***************************************************************************)
(* The steps of one invocation p of the program                            *)
(***************************************************************************)
InRun == {"wait", "exists", "gate_inflight", "gate_processed", "gate_stamp", "mark",
          "extract", "list", "walk", "copy_check", "copy_tmp", "copy_rename",
          "record", "counts", "finally"}

\* between mark_inflight and clear_inflight
InFlight == {"extract", "list", "walk", "copy_check", "copy_tmp", "copy_rename",
             "record", "counts", "finally"}

\* what a finished run leaves in the history
RunRecord(p, outcome) ==
    [pdf |-> loc[p].pdf, sha |-> loc[p].sha, outcome |-> outcome,
     rows |-> Len(objectsTsv') - runStart[p].rows,
     recs |-> Len(processedTsv') - runStart[p].recs,
     stamped |-> stamps' # runStart[p].stamps,
     run |-> loc[p].run]

\* process_pdf returns to scan_once's loop
Return(p, outcome) ==
    /\ pc' = [pc EXCEPT ![p] = "scan_loop"]
    /\ loc' = [loc EXCEPT ![p] = [InitLoc EXCEPT !.todo = loc[p].todo]]
    /\ lastRun' = RunRecord(p, outcome)
    /\ runStart' = [runStart EXCEPT ![p] = NoStart]

\* an exception leaves process_pdf: nothing in scan_once, monitor_loop or main
\* catches it, and the invocation ends
Propagate(p, outcome) ==
    /\ pc' = [pc EXCEPT ![p] = "crashed"]
    /\ loc' = [loc EXCEPT ![p] = InitLoc]
    /\ lastRun' = RunRecord(p, outcome)
    /\ runStart' = [runStart EXCEPT ![p] = NoStart]

Goto(p, label) == pc' = [pc EXCEPT ![p] = label]

\* main(): ensure_layout(), up to the header it writes: to a ledger that is absent
\* or empty, or to the temporary file of a migration
Main(p) ==
    /\ p \in live
    /\ pc[p] \in {"off", "crashed", "killed"}
    /\ IF objectsTsv = <<>>
       THEN /\ objectsTsv' = <<OBJECTS_HEADER \o <<NL>>>>
            /\ rowRun' = <<0>>
            /\ objectsTmp' = objectsTmp
            /\ loc' = [loc EXCEPT ![p] = InitLoc]
            /\ Goto(p, "scan_once")
       ELSE IF rstrip(objectsTsv[1], NL) = OLD_HEADER_5
       THEN /\ objectsTmp' = Append(open_w(objectsTmp), OBJECTS_HEADER \o <<NL>>)
            /\ UNCHANGED <<objectsTsv, rowRun>>
            /\ loc' = [loc EXCEPT ![p] = [InitLoc EXCEPT !.i = 1]]
            /\ Goto(p, "migrate")
       ELSE /\ UNCHANGED <<objectsTsv, rowRun, objectsTmp>>
            /\ loc' = [loc EXCEPT ![p] = InitLoc]
            /\ Goto(p, "scan_once")
    /\ UNCHANGED <<pdfDir, objDir, stamps, hashedDir, hashCountTsv, processedTsv,
                   inflight, envVars, fails, kills, lastRun, runStart, runSha, firstStored, ledger0>>

\* ensure_layout: the next line of the legacy ledger (loc.i lines are read) is
\* rewritten to the temporary file
MigrateLine(p) ==
    /\ pc[p] = "migrate"
    /\ loc[p].i < Len(objectsTsv)
    /\ objectsTmp' = Append(objectsTmp, migrated_line(objectsTsv[loc[p].i + 1]))
    /\ loc' = [loc EXCEPT ![p].i = @ + 1]
    /\ UNCHANGED <<pdfDir, objDir, stamps, hashedDir, objectsTsv, hashCountTsv,
                   processedTsv, inflight, pc, envVars, fails, kills, histVars>>

\* ensure_layout: the legacy ledger is read to its end: tmp.replace(OBJECTS_TSV)
MigrateReplace(p) ==
    /\ pc[p] = "migrate"
    /\ loc[p].i = Len(objectsTsv)
    /\ objectsTsv' = objectsTmp
    /\ objectsTmp' = <<>>
    /\ loc' = [loc EXCEPT ![p].i = 0]
    /\ Goto(p, "scan_once")
    /\ UNCHANGED <<pdfDir, objDir, stamps, hashedDir, hashCountTsv, processedTsv,
                   inflight, envVars, fails, kills, histVars>>

\* scan_once: the sorted listing of pdf/
ScanOnce(p) ==
    /\ pc[p] = "scan_once"
    /\ loc' = [loc EXCEPT ![p].todo =
                  sorted({n \in DOMAIN pdfDir : PDF_EXT_RE_search(n)})]
    /\ Goto(p, "scan_loop")
    /\ UNCHANGED <<fsVars, envVars, fails, kills, histVars>>

\* scan_once: process_pdf(p) for the next file of the listing
ScanNext(p) ==
    /\ pc[p] = "scan_loop"
    /\ loc[p].todo # <<>>
    /\ loc' = [loc EXCEPT ![p].pdf = Head(loc[p].todo), ![p].todo = Tail(loc[p].todo),
                          ![p].i = 0, ![p].last = -1]
    /\ runStart' = [runStart EXCEPT ![p] =
                       [rows |-> Len(objectsTsv), recs |-> Len(processedTsv),
                        stamps |-> stamps]]
    /\ Goto(p, "wait")
    /\ UNCHANGED <<fsVars, envVars, fails, kills, lastRun, rowRun, runSha, firstStored, ledger0>>

\* scan_once is through its listing: monitor_loop polls again (args.monitor), or
\* the program ends (no args.monitor, or Ctrl+C while monitor_loop sleeps)
ScanEnd(p) ==
    /\ pc[p] = "scan_loop"
    /\ loc[p].todo = <<>>
    /\ \E monitor \in BOOLEAN : Goto(p, IF monitor THEN "scan_once" ELSE "off")
    /\ UNCHANGED <<fsVars, loc, envVars, fails, kills, histVars>>

\* what one poll of wait_for_quiet_file can find: no file, or a file of some size
PollResults ==
    {[exists |-> TRUE, size |-> n] : n \in sizes}
    \cup (IF vanishes THEN {[exists |-> FALSE, size |-> 0]} ELSE {})

\* wait_for_quiet_file: one turn of its loop, or the end of the loop
WaitForQuietFile(p) ==
    /\ pc[p] = "wait"
    /\ IF loc[p].i < Tries
       THEN \E poll \in PollResults :
               IF ~poll.exists
               THEN /\ loc' = [loc EXCEPT ![p].i = @ + 1]
                    /\ UNCHANGED pc
               ELSE IF poll.size = loc[p].last
               THEN /\ loc' = [loc EXCEPT ![p].quiet = TRUE, ![p].i = 0, ![p].last = -1]
                    /\ Goto(p, "exists")
               ELSE /\ loc' = [loc EXCEPT ![p].last = poll.size, ![p].i = @ + 1]
                    /\ UNCHANGED pc
       ELSE /\ loc' = [loc EXCEPT ![p].i = 0, ![p].last = -1]
            /\ Goto(p, "exists")
    /\ UNCHANGED <<fsVars, envVars, fails, kills, histVars>>

\* process_pdf: the file is gone, or its digest is taken
Identify(p) ==
    /\ pc[p] = "exists"
    /\ UNCHANGED <<fsVars, envVars, fails, kills, rowRun, runSha, firstStored, ledger0>>
    /\ IF loc[p].pdf \notin DOMAIN pdfDir
       THEN Return(p, "vanished")
       ELSE /\ loc' = [loc EXCEPT ![p].sha = Sha256Hex(pdfDir[loc[p].pdf])]
            /\ Goto(p, "gate_inflight")
            /\ UNCHANGED <<lastRun, runStart>>

\* process_pdf: if has_inflight(sha): return
GateInflight(p) ==
    /\ pc[p] = "gate_inflight"
    /\ UNCHANGED <<fsVars, envVars, fails, kills, rowRun, runSha, firstStored, ledger0>>
    /\ IF has_inflight(loc[p].sha)
       THEN Return(p, "skip_inflight")
       ELSE /\ loc' = [loc EXCEPT ![p].quiet = FALSE]
            /\ Goto(p, "gate_processed")
            /\ UNCHANGED <<lastRun, runStart>>

\* process_pdf: if sha in load_processed_shas(): return
GateProcessed(p) ==
    /\ pc[p] = "gate_processed"
    /\ UNCHANGED <<fsVars, envVars, fails, kills, rowRun, runSha, firstStored, ledger0>>
    /\ IF loc[p].sha \in load_processed_shas
       THEN Return(p, "skip_processed")
       ELSE /\ loc' = [loc EXCEPT ![p].processed_shas = load_processed_shas]
            /\ Goto(p, "gate_stamp")
            /\ UNCHANGED <<lastRun, runStart>>

\* process_pdf: the stamp of the extraction directory holds sha: record and return
GateStamp(p) ==
    /\ pc[p] = "gate_stamp"
    /\ UNCHANGED <<pdfDir, objDir, stamps, hashedDir, objectsTsv, objectsTmp,
                   hashCountTsv, inflight, envVars, fails, kills, rowRun, runSha, firstStored, ledger0>>
    /\ IF stamp_matches(safe_name(loc[p].pdf), loc[p].sha)
       THEN /\ processedTsv' = IF loc[p].sha \notin loc[p].processed_shas
                               THEN record_processed(loc[p].sha, loc[p].pdf)
                               ELSE processedTsv
            /\ Return(p, "skip_stamp")
       ELSE /\ Goto(p, "mark")
            /\ UNCHANGED <<processedTsv, loc, lastRun, runStart>>

\* process_pdf: mark_inflight(sha)
Mark(p) ==
    /\ pc[p] = "mark"
    /\ inflight' = mark_inflight(loc[p].sha)
    /\ runSha' = Append(runSha, loc[p].sha)
    /\ loc' = [loc EXCEPT ![p].run = Len(runSha) + 1]
    /\ Goto(p, "extract")
    /\ UNCHANGED <<pdfDir, objDir, stamps, hashedDir, objectsTsv, objectsTmp,
                   hashCountTsv, processedTsv, envVars, fails, kills, lastRun,
                   runStart, rowRun, firstStored, ledger0>>

\* extract_with_mutool: `mutool extract` in the working directory ends with rc 0;
\* its files are in the working directory, which no later step reads, and outdir
\* is as it was
ExtractInCwd(p) ==
    /\ pc[p] = "extract"
    /\ Goto(p, "list")
    /\ UNCHANGED <<fsVars, loc, envVars, fails, kills, histVars>>

\* extract_with_mutool: rc # 0, and the second `mutool extract`, run in outdir,
\* writes the document's objects there
ExtractInOutdir(p) ==
    /\ pc[p] = "extract"
    /\ LET dir == safe_name(loc[p].pdf)
           out == MutoolOutput(pdfDir[loc[p].pdf])
       IN  objDir' = {f \in objDir : ~(f.dir = dir /\ \E o \in out : o.fn = f.fn)}
                     \cup {[dir |-> dir, fn |-> o.fn, data |-> o.data] : o \in out}
    /\ Goto(p, "list")
    /\ UNCHANGED <<pdfDir, stamps, hashedDir, objectsTsv, objectsTmp, hashCountTsv,
                   processedTsv, inflight, loc, envVars, fails, kills, histVars>>

\* a variant in which the stamp is written before the extractor is known to have
\* succeeded
ExtractFails_stamped(p) ==
    /\ pc[p] = "extract"
    /\ fails < MaxFails
    /\ fails' = fails + 1
    /\ stamps' = write_stamp(safe_name(loc[p].pdf), loc[p].sha)
    /\ loc' = [loc EXCEPT ![p].raised = "extract_failed"]
    /\ Goto(p, "finally")
    /\ UNCHANGED <<pdfDir, objDir, hashedDir, objectsTsv, objectsTmp, hashCountTsv,
                   processedTsv, inflight, envVars, kills, histVars>>

\* extract_with_mutool: both `mutool extract` fail: RuntimeError
ExtractFails(p) ==
    /\ pc[p] = "extract"
    /\ fails < MaxFails
    /\ fails' = fails + 1
    /\ loc' = [loc EXCEPT ![p].raised = "extract_failed"]
    /\ Goto(p, "finally")
    /\ UNCHANGED <<fsVars, envVars, kills, histVars>>

\* process_pdf: os.walk(outdir) lists the directory
ListDir(p) ==
    /\ pc[p] = "list"
    /\ loc' = [loc EXCEPT ![p].walk = walk_files(safe_name(loc[p].pdf))]
    /\ Goto(p, "walk")
    /\ UNCHANGED <<fsVars, envVars, fails, kills, histVars>>

\* process_pdf: the next file of the walk: skip the stamp, or hash the file and
\* append its row to objects.tsv
WalkNext(p) ==
    /\ pc[p] = "walk"
    /\ loc[p].walk # <<>>
    /\ LET fn == Head(loc[p].walk)
           dir == safe_name(loc[p].pdf)
       IN  IF fn = StampName
           THEN /\ loc' = [loc EXCEPT ![p].walk = Tail(@)]
                /\ UNCHANGED <<pc, objectsTsv, rowRun>>
           ELSE /\ objectsTsv' =
                       append_line(objectsTsv,
                              ledger_row(loc[p].pdf, dir, fn, Sha256Hex(object_data(dir, fn))))
                /\ rowRun' = Append(rowRun, loc[p].run)
                /\ loc' = [loc EXCEPT ![p].walk = Tail(@), ![p].fn = fn]
                /\ Goto(p, "copy_check")
    /\ UNCHANGED <<pdfDir, objDir, stamps, hashedDir, objectsTmp, hashCountTsv,
                   processedTsv, inflight, envVars, fails, kills, lastRun, runStart, runSha, firstStored, ledger0>>

\* copy_object_if_new_by_hash: return when the store has the hash under any name
CopyCheck(p) ==
    /\ pc[p] = "copy_check"
    /\ LET h == Sha256Hex(object_data(safe_name(loc[p].pdf), loc[p].fn))
       IN  /\ IF store_has(h)
              THEN Goto(p, "walk") /\ loc' = [loc EXCEPT ![p].fn = <<>>]
              ELSE Goto(p, "copy_tmp") /\ UNCHANGED loc
    /\ UNCHANGED <<fsVars, envVars, fails, kills, histVars>>

\* copy_object_if_new_by_hash: shutil.copy2(src, tmp)
CopyTmp(p) ==
    /\ pc[p] = "copy_tmp"
    /\ LET h == Sha256Hex(object_data(safe_name(loc[p].pdf), loc[p].fn))
       IN  hashedDir' = hashedDir \cup {store_tmp(store_dest(loc[p].fn, h))}
    /\ Goto(p, "copy_rename")
    /\ UNCHANGED <<pdfDir, objDir, stamps, objectsTsv, objectsTmp, hashCountTsv,
                   processedTsv, inflight, loc, envVars, fails, kills, histVars>>

\* copy_object_if_new_by_hash: tmp.replace(dest); FileNotFoundError when the
\* temporary file is gone
CopyRename(p) ==
    /\ pc[p] = "copy_rename"
    /\ LET h == Sha256Hex(object_data(safe_name(loc[p].pdf), loc[p].fn))
           dest == store_dest(loc[p].fn, h)
       IN  IF store_tmp(dest) \in hashedDir
           THEN /\ hashedDir' = (hashedDir \ {store_tmp(dest)}) \cup {dest}
                /\ firstStored' = IF \E e \in firstStored : e[1] = h THEN firstStored
                                   ELSE firstStored \cup {<<h, loc[p].fn>>}
                /\ loc' = [loc EXCEPT ![p].fn = <<>>]
                /\ Goto(p, "walk")
           ELSE /\ UNCHANGED <<hashedDir, firstStored>>
                /\ loc' = [loc EXCEPT ![p].raised = "failed"]
                /\ Goto(p, "finally")
    /\ UNCHANGED <<pdfDir, objDir, stamps, objectsTsv, objectsTmp, hashCountTsv,
                   processedTsv, inflight, envVars, fails, kills, lastRun, runStart,
                   rowRun, runSha, ledger0>>

\* process_pdf: the walk is over: stamp.write_text(sha + "\n")
WriteStamp(p) ==
    /\ pc[p] = "walk"
    /\ loc[p].walk = <<>>
    /\ stamps' = write_stamp(safe_name(loc[p].pdf), loc[p].sha)
    /\ Goto(p, "record")
    /\ UNCHANGED <<pdfDir, objDir, hashedDir, objectsTsv, objectsTmp, hashCountTsv,
                   processedTsv, inflight, loc, envVars, fails, kills, histVars>>

\* process_pdf: record_processed(sha, pdf_name, size, mtime_epoch)
Record(p) ==
    /\ pc[p] = "record"
    /\ processedTsv' = record_processed(loc[p].sha, loc[p].pdf)
    /\ Goto(p, "counts")
    /\ UNCHANGED <<pdfDir, objDir, stamps, hashedDir, objectsTsv, objectsTmp,
                   hashCountTsv, inflight, loc, envVars, fails, kills, histVars>>

\* process_pdf: update_hash_counts(), and the count of the document's rows
Counts(p) ==
    /\ pc[p] = "counts"
    /\ hashCountTsv' = update_hash_counts(objectsTsv)
    /\ Goto(p, "finally")
    /\ UNCHANGED <<pdfDir, objDir, stamps, hashedDir, objectsTsv, objectsTmp,
                   processedTsv, inflight, loc, envVars, fails, kills, histVars>>

\* an exception (an OSError, a KeyboardInterrupt) inside the try block, after a
\* row was appended or while finalizing
Raise(p) ==
    /\ pc[p] \in {"copy_check", "record", "counts"}
    /\ fails < MaxFails
    /\ fails' = fails + 1
    /\ loc' = [loc EXCEPT ![p].raised = "failed"]
    /\ Goto(p, "finally")
    /\ UNCHANGED <<fsVars, envVars, kills, histVars>>

\* process_pdf: finally: clear_inflight(sha); then the return, or the exception
\* goes on
Finally(p) ==
    /\ pc[p] = "finally"
    /\ inflight' = clear_inflight(loc[p].sha)
    /\ UNCHANGED <<pdfDir, objDir, stamps, hashedDir, objectsTsv, objectsTmp,
                   hashCountTsv, processedTsv, envVars, fails, kills, rowRun, runSha, firstStored, ledger0>>
    /\ IF loc[p].raised = ""
       THEN Return(p, "completed")
       ELSE Propagate(p, loc[p].raised)

\* the invocation is killed (SIGKILL, power loss) while a document is in flight or
\* a migration is under way: no finally block runs
Kill(p) ==
    /\ pc[p] \in InFlight \cup {"migrate"}
    /\ kills < MaxKills
    /\ kills' = kills + 1
    /\ UNCHANGED <<fsVars, envVars, fails, rowRun, runSha, firstStored, ledger0>>
    /\ pc' = [pc EXCEPT ![p] = "killed"]
    /\ lastRun' = IF pc[p] \in InFlight THEN RunRecord(p, "killed")
                   ELSE [NoRun EXCEPT !.outcome = "killed_migrating",
                                      !.rows = Len(objectsTmp)]
    /\ loc' = [loc EXCEPT ![p] = InitLoc]
    /\ runStart' = [runStart EXCEPT ![p] = NoStart]

\* the steps of the program itself
NormalStep(p) ==
    \/ Main(p) \/ MigrateLine(p) \/ MigrateReplace(p)
    \/ ScanOnce(p) \/ ScanNext(p) \/ ScanEnd(p)
    \/ WaitForQuietFile(p)
    \/ Identify(p) \/ GateInflight(p) \/ GateProcessed(p) \/ GateStamp(p) \/ Mark(p)
    \/ ExtractInCwd(p) \/ ExtractInOutdir(p)
    \/ ListDir(p) \/ WalkNext(p) \/ CopyCheck(p) \/ CopyTmp(p) \/ CopyRename(p)
    \/ WriteStamp(p) \/ Record(p) \/ Counts(p) \/ Finally(p)

\* and what its environment does to it
Step(p) == NormalStep(p) \/ ExtractFails(p) \/ Raise(p) \/ Kill(p)

Next == \E p \in Procs : Step(p)

Spec == Init /\ [][Next]_vars

\* the program is scheduled: an invocation that can take a step of its own takes
\* one, and the program is started again after it ended
FairSpec == Init /\ [][Next]_vars /\ \A p \in Procs : WF_vars(NormalStep(p))

(***************************************************************************)
(* Settling: documents that are still being written. A poll may show any   *)
(* of the sizes 1..MaxSize or find the document absent; nothing fails.     *)
(***************************************************************************)
InitSettle ==
    /\ pdfDir \in PdfDirs
    /\ \/ objectsTsv = <<>> /\ hashCountTsv = <<>>
       \/ objectsTsv = LegacyLedger /\ hashCountTsv = LegacyHashCount
    /\ InitRest
    /\ live = {"p1"}
    /\ sizes = 1..MaxSize
    /\ vanishes = TRUE
    /\ call = NoCall

NextSettle == \E p \in Procs : NormalStep(p)

SpecSettle == InitSettle /\ [][NextSettle]_vars

(***************************************************************************)
(* Migration: ensure_layout on ledgers of the 5-column version, with up to *)
(* MaxRows data rows whose fields are blank or not, and with or without    *)
(* the newline at the end of the file.                                     *)
(***************************************************************************)
LegacyFields == {<<>>, <<"x">>}

\* rows of 5 fields: the first, the three in the middle and the last blank or not
LegacyRows ==
    {join(TAB, <<a, m, m, m, z>>) : a \in LegacyFields, m \in LegacyFields, z \in LegacyFields}

\* the lines of a legacy ledger with the data rows `rows`; nl: the file ends with
\* a newline
LegacyLedgerOf(rows, nl) ==
    IF rows = <<>>
    THEN <<IF nl THEN OLD_HEADER_5 \o <<NL>> ELSE OLD_HEADER_5>>
    ELSE <<OLD_HEADER_5 \o <<NL>>>>
         \o [i \in 1..Len(rows) |->
                IF i < Len(rows) \/ nl THEN rows[i] \o <<NL>> ELSE rows[i]]

LegacyLedgers ==
    {LegacyLedgerOf(rows, nl) :
        rows \in UNION {[1..n -> LegacyRows] : n \in 0..MaxRows}, nl \in BOOLEAN}

InitMig ==
    /\ pdfDir = <<>>
    /\ objectsTsv \in LegacyLedgers
    /\ hashCountTsv = <<>>
    /\ InitRest
    /\ live = {"p1"}
    /\ sizes = {1}
    /\ vanishes = FALSE
    /\ call = NoCall

NextMig == \E p \in Procs : Main(p) \/ MigrateLine(p) \/ MigrateReplace(p) \/ Kill(p)

SpecMig == InitMig /\ [][NextMig]_vars

(***************************************************************************)
(* Two invocations of the program at once (two terminals, or a scheduled   *)
(* run beside a monitoring one) on a fresh working directory whose pdf/    *)
(* holds one document.  Their steps interleave at every file operation;    *)
(* nothing fails and nothing is killed.                                    *)
(***************************************************************************)
InitConc ==
    /\ pdfDir = (PdfAB :> "D1")
    /\ objectsTsv = <<>>
    /\ hashCountTsv = <<>>
    /\ InitRest
    /\ live = Procs
    /\ sizes = {1}
    /\ vanishes = FALSE
    /\ call = NoCall

ConcStep(p) ==
    \/ Main(p)
    \/ ScanOnce(p) \/ ScanNext(p) \/ ScanEnd(p)
    \/ WaitForQuietFile(p)
    \/ Identify(p) \/ GateInflight(p) \/ GateProcessed(p) \/ GateStamp(p) \/ Mark(p)
    \/ ExtractInCwd(p) \/ ExtractInOutdir(p)
    \/ ListDir(p) \/ WalkNext(p) \/ CopyCheck(p) \/ CopyTmp(p) \/ CopyRename(p)
    \/ WriteStamp(p) \/ Record(p) \/ Counts(p) \/ Finally(p)

NextConc == \E p \in Procs : ConcStep(p)

SpecConc == InitConc /\ [][NextConc]_vars

(***************************************************************************)
(* File-name parsing: parse_mcro_fields on document names made of a prefix,*)
(* up to MaxTokens tokens joined by underscores, and a .pdf extension.     *)
(***************************************************************************)
NamePrefixes ==
    {<<"M", "C", "R", "O", "_">>, <<"m", "c", "r", "o", "_">>,
     <<"X", "M", "C", "R", "O", "_">>, <<"r", "e", "p", "o", "r", "t">>, <<>>}

\* tokens have no underscore and no dot; one of them is empty
NameTokens ==
    {<<>>, <<"1", "2", "3", "4", "5">>, <<"M", "o", "t", "i", "o", "n">>,
     <<"2", "0", "2", "4", "-", "0", "1", "-", "0", "1">>}

\* what PDF_EXT_RE finds at the end of a document's name
PdfExts == {<<".", "p", "d", "f">>, <<".", "P", "D", "F">>}

\* the document names of the scenario, each with the way it is made
DocNames ==
    {[prefix |-> pre, tokens |-> toks, ext |-> e, name |-> pre \o join("_", toks) \o e] :
        pre \in NamePrefixes,
        toks \in UNION {[1..n -> NameTokens] : n \in 0..MaxTokens},
        e \in PdfExts}

\* nothing of the pipeline runs while a parsing function is examined
InitPure ==
    /\ pdfDir = <<>>
    /\ objectsTsv = <<>>
    /\ hashCountTsv = <<>>
    /\ InitRest
    /\ live = {}
    /\ sizes = {1}
    /\ vanishes = FALSE

InitParse ==
    /\ InitPure
    /\ call \in {[fn |-> "parse_mcro_fields", arg |-> d.name, made |-> d,
                  done |-> FALSE, ret |-> <<>>] : d \in DocNames}

\* process_pdf: case_num, filing_type, filing_date = parse_mcro_fields(pdf_name)
ParseMcroFields ==
    /\ call.fn = "parse_mcro_fields"
    /\ ~call.done
    /\ call' = [call EXCEPT !.ret = parse_mcro_fields(call.arg), !.done = TRUE]
    /\ UNCHANGED <<fsVars, pc, loc, live, sizes, vanishes, fails, kills, histVars>>

NextParse == ParseMcroFields

SpecParse == InitParse /\ [][NextParse]_vars

(***************************************************************************)
(* Signature parsing: parse_pdfsig on outputs of pdfsig of up to MaxLines  *)
(* lines: headers of the blocks 1..MaxBlock, the three kinds of line the   *)
(* function reads, and lines it has no use for.  A phrase that a regular   *)
(* expression looks for is one character of the line.                      *)
(***************************************************************************)
SigPhrase(kind) ==
    CASE kind = "CN" -> "Signer Certificate Common Name:"
      [] kind = "TIME" -> "Signing Time:"
      [] kind = "RANGE" -> "Signed Ranges:"
      [] OTHER -> "Signature Validation:"

\* the values the lines of the scenario carry
SigValue(kind, v) ==
    CASE kind = "TIME" -> IF v = 1 THEN "Apr 11 2024 08:35:56" ELSE "yesterday"
      [] kind = "RANGE" -> IF v = 1 THEN "[0 - 100]" ELSE "[0 - 200]"
      [] OTHER -> IF v = 1 THEN "Ann" ELSE "Bob"

\* the text of a line of pdfsig's output
SigLineText(l) ==
    IF l.kind = "header" THEN <<"Signature", " ", "#">> \o FormatInt(l.n) \o <<":">>
    ELSE <<" ", " ", "-", " ", SigPhrase(l.kind), " ", SigValue(l.kind, l.v), " ">>

\* the lines of the scenario, each with what it is
SigLines ==
    {[kind |-> "header", n |-> n, v |-> 0] : n \in 1..MaxBlock}
    \cup {[kind |-> k, n |-> 0, v |-> v] : k \in {"CN", "TIME", "RANGE"}, v \in {1, 2}}
    \cup {[kind |-> "other", n |-> 0, v |-> 1]}

\* SIG_BLOCK_RE.match(str): the number of the block, 0 when there is no match
SIG_BLOCK_RE_match(str) ==
    With(str, LAMBDA line :
        IF /\ Len(line) >= 5
           /\ line[1] = "Signature" /\ IsSpace(line[2]) /\ line[3] = "#"
           /\ line[4] \in {"1", "2", "3", "4"} /\ line[5] = ":"
        THEN CHOOSE n \in 1..4 : Digits[n + 1] = line[4]
        ELSE 0)

\* CN_RE, TIME_RE, RANGE_RE .search(line): whether the phrase and a white space
\* after it are found, and group(1), the rest of the line
SigSearch(phrase, str) ==
    With(str, LAMBDA line :
        With({j \in 1..(Len(line) - 1) : line[j] = phrase /\ IsSpace(line[j + 1])},
             LAMBDA at :
                IF at = {} THEN [found |-> FALSE, group |-> <<>>]
                ELSE [found |-> TRUE,
                      group |-> SubSeq(line, (CHOOSE j \in at : \A k \in at : j <= k) + 2,
                                       Len(line))]))

\* datetime.strptime on the formats tried, then strftime; raw.strip() when none fits
normalize_sig_time(raw) ==
    With(strip(raw), LAMBDA t :
        IF t = <<"Apr 11 2024 08:35:56">> THEN <<"2024-04-11 08:35:56">> ELSE t)

\* the key of a slot: f"SIG{cur}_CN", f"SIG{cur}_TIME", f"SIG{cur}_RANGE"
SigKey(cur, kind) ==
    CASE kind = "CN" ->
            (CASE cur = 1 -> "SIG1_CN" [] cur = 2 -> "SIG2_CN" [] cur = 3 -> "SIG3_CN"
               [] OTHER -> "SIG4_CN")
      [] kind = "TIME" ->
            (CASE cur = 1 -> "SIG1_TIME" [] cur = 2 -> "SIG2_TIME" [] cur = 3 -> "SIG3_TIME"
               [] OTHER -> "SIG4_TIME")
      [] OTHER ->
            (CASE cur = 1 -> "SIG1_RANGE" [] cur = 2 -> "SIG2_RANGE" [] cur = 3 -> "SIG3_RANGE"
               [] OTHER -> "SIG4_RANGE")

\* sigs as parse_pdfsig has them at first
NoSigs ==
    [SIG1_CN |-> <<>>, SIG2_CN |-> <<>>, SIG3_CN |-> <<>>, SIG4_CN |-> <<>>,
     SIG1_TIME |-> <<>>, SIG2_TIME |-> <<>>, SIG3_TIME |-> <<>>, SIG4_TIME |-> <<>>,
     SIG1_RANGE |-> <<>>, SIG2_RANGE |-> <<>>, SIG3_RANGE |-> <<>>, SIG4_RANGE |-> <<>>]

\* parse_pdfsig: one turn of the loop over out.splitlines(): cur and sigs after
\* the line
parse_pdfsig_line(st, line) ==
    With(SIG_BLOCK_RE_match(strip(line)), LAMBDA m :
        IF m # 0 THEN [st EXCEPT !.cur = m]
        ELSE IF ~(1 <= st.cur /\ st.cur <= 4) THEN st
        ELSE IF SigSearch(SigPhrase("CN"), line).found
        THEN [st EXCEPT !.sigs[SigKey(st.cur, "CN")] =
                            strip(SigSearch(SigPhrase("CN"), line).group)]
        ELSE IF SigSearch(SigPhrase("TIME"), line).found
        THEN [st EXCEPT !.sigs[SigKey(st.cur, "TIME")] =
                            normalize_sig_time(SigSearch(SigPhrase("TIME"), line).group)]
        ELSE IF SigSearch(SigPhrase("RANGE"), line).found
        THEN [st EXCEPT !.sigs[SigKey(st.cur, "RANGE")] =
                            strip(SigSearch(SigPhrase("RANGE"), line).group)]
        ELSE st)

\* pdfsig ended with rc 0 and printed the lines of call.arg
InitSig ==
    /\ InitPure
    /\ call \in {[fn |-> "parse_pdfsig", arg |-> [i \in 1..Len(made) |-> SigLineText(made[i])],
                  made |-> made, i |-> 0, cur |-> 0, sigs |-> NoSigs] :
                     made \in UNION {[1..n -> SigLines] : n \in 1..MaxLines}}

\* parse_pdfsig: the next line of the output
ParsePdfsigLine ==
    /\ call.fn = "parse_pdfsig"
    /\ call.i < Len(call.arg)
    /\ call' = [parse_pdfsig_line(call, call.arg[call.i + 1]) EXCEPT !.i = call.i + 1]
    /\ UNCHANGED <<fsVars, pc, loc, live, sizes, vanishes, fails, kills, histVars>>

NextSig == ParsePdfsigLine

SpecSig == InitSig /\ [][NextSig]_vars

(***************************************************************************)
(* What the properties below read off a state                              *)
(***************************************************************************)
\* the document hashes of pdf/
DocShas == {Sha256Hex(pdfDir[n]) : n \in DOMAIN pdfDir}

\* the lines of processed.tsv whose first column is sha
ProcessedRecordsOf(sha) ==
    {i \in 1..Len(processedTsv) : split(rstrip(processedTsv[i], NL), TAB)[1] = sha}

\* the runs for documents of hash sha that have lines in objects.tsv
RunsWithRowsFor(sha) ==
    {rowRun[i] : i \in {j \in 1..Len(rowRun) : rowRun[j] > 0 /\ runSha[rowRun[j]] = sha}}

\* no invocation is inside process_pdf
NoRunInProgress == \A p \in Procs : pc[p] \notin InRun

\* the object hashes of the ledger: the values of column 4 below the header
LedgerHashes ==
    {split(rstrip(objectsTsv[i], NL), TAB)[4] :
        i \in {j \in 2..Len(objectsTsv) :
                  /\ Len(split(rstrip(objectsTsv[j], NL), TAB)) >= 4
                  /\ split(rstrip(objectsTsv[j], NL), TAB)[4] # <<>>}}

\* the number of ledger rows whose column 4 is h
LedgerRowsWith(h) ==
    Cardinality({j \in 2..Len(objectsTsv) :
                    /\ Len(split(rstrip(objectsTsv[j], NL), TAB)) >= 4
                    /\ split(rstrip(objectsTsv[j], NL), TAB)[4] = h})

\* the files of hashed-objects/ named h or h.<anything>
StoreFilesOf(h) == {f \in hashedDir : f = h \/ startswith(f, h \o <<".">>)}

\* the extension a blob gets from the file name fn: lower-cased, and none when
\* it has more than 11 characters
KeptExt(fn) == IF Len(suffix(fn)) > 11 THEN <<>> ELSE lower(suffix(fn))

\* the fields of line i of objects.tsv
LedgerFields(i) == split(rstrip(objectsTsv[i], NL), TAB)

\* the rows of objects.tsv that process_pdf wrote for the document named n
RowsOfDocument(n) ==
    {i \in 2..Len(objectsTsv) :
        rowRun[i] > 0 /\ Len(LedgerFields(i)) >= 6 /\ LedgerFields(i)[5] = n}

\* the blobs of hashed-objects/ for the hash h: the files named h or h.<ext>
\* that are no temporary file of the two-step write
BlobsOf(h) == {f \in StoreFilesOf(h) : suffix(f) # <<".", "t", "m", "p">>}

\* the block that line i of pdfsig's output belongs to: the number of the last
\* header up to it, 0 before the first header
SigBlockOf(made, i) ==
    With({j \in 1..i : made[j].kind = "header"}, LAMBDA hs :
        IF hs = {} THEN 0 ELSE made[CHOOSE j \in hs : \A k \in hs : k <= j].n)

\* the three slots of block k
SigSlots(sigs, k) == <<sigs[SigKey(k, "CN")], sigs[SigKey(k, "TIME")], sigs[SigKey(k, "RANGE")]>>

\* the step ends p's run as skipped, with the given outcome: the extractor is not
\* run, no marker is made, and the ledger, the store and hash-count.tsv are as
\* they were
SkipsAs(p, outcome) ==
    /\ pc'[p] = "scan_loop"
    /\ lastRun'.outcome = outcome
    /\ UNCHANGED <<objDir, inflight, objectsTsv, hashedDir, hashCountTsv, stamps>>

\* the step takes p to the next check, and changes no file
PassesTo(p, label) == pc'[p] = label /\ UNCHANGED fsVars

\* the completion stamp of the document's extraction directory holds its hash
StampHolds(pdf_name, sha) ==
    \E st \in stamps : st.dir = safe_name(pdf_name) /\ strip(st.text) = sha

\* the rows of objects.tsv that the run numbered r wrote
RowsOfRun(r) == {i \in 2..Len(objectsTsv) : r > 0 /\ rowRun[i] = r}

\* a is a prefix of b
IsPrefix(a, b) == Len(a) <= Len(b) /\ SubSeq(b, 1, Len(a)) = a

\* p takes this step, and is not killed by it
Acts(p) == pc'[p] # pc[p] /\ pc'[p] # "killed"

\* this step ends p's run of process_pdf, by a return or by an exception
RunEnds(p) == pc[p] \in InRun /\ pc'[p] \notin InRun /\ pc'[p] # "killed"

\* the document hashes of the scenario
AllShas == {Sha256Hex(d) : d \in {"D1", "D2", "D3"}}

\* the object hashes of the scenario
ObjectHashes == {Sha256Hex(d) : d \in {"B1", "B2", "B3"}}

\* the program was killed while its run for the hash sha was in flight
KilledInFlight(sha) ==
    /\ \E p \in Procs : pc[p] = "killed"
    /\ lastRun.outcome = "killed"
    /\ lastRun.sha = sha
    /\ LockName(sha) \in inflight

\* some invocation is inside process_pdf on a file whose bytes have the hash sha
RunInProgressFor(sha) ==
    \E p \in Procs :
        /\ pc[p] \in InRun
        /\ loc[p].pdf \in DOMAIN pdfDir
        /\ Sha256Hex(pdfDir[loc[p].pdf]) = sha

\* the objects of the documents with hash sha
ObjectsOfSha(sha) ==
    UNION {MutoolOutput(pdfDir[n]) : n \in {m \in DOMAIN pdfDir : Sha256Hex(pdfDir[m]) = sha}}

\* the ledger has a row for the object o of the document named n: its hash in
\* column 4, the document's name in column 5, its path in column 6
LedgerHasRowFor(n, o) ==
    \E i \in 2..Len(objectsTsv) :
        With(split(rstrip(objectsTsv[i], NL), TAB), LAMBDA parts :
            /\ Len(parts) >= 6
            /\ parts[4] = Sha256Hex(o.data)
            /\ parts[5] = n
            /\ parts[6] = safe_name(n) \o <<"/">> \o o.fn)

\* the ledger has a row for every object of the document with hash sha, under one
\* of the names the document has in pdf/
LedgerCoversSha(sha) ==
    \E n \in DOMAIN pdfDir :
        /\ Sha256Hex(pdfDir[n]) = sha
        /\ \A o \in MutoolOutput(pdfDir[n]) : LedgerHasRowFor(n, o)

(***************************************************************************)
(* C1  Idempotent re-ingestion: once a document hash has its record in     *)
(* processed.tsv, no run on a file of those bytes is past the gate, the    *)
(* table holds exactly one record for the hash, and the ledger's rows for  *)
(* the hash are one set: all written by a single run.                      *)
(***************************************************************************)
C1_IdempotentReingestion ==
    \A sha \in DocShas :
        ProcessedRecordsOf(sha) # {} =>
            /\ Cardinality(ProcessedRecordsOf(sha)) = 1
            /\ Cardinality(RunsWithRowsFor(sha)) <= 1
            /\ \A p \in Procs :
                  pc[p] \in ({"mark"} \cup InFlight) \ {"counts", "finally"}
                      => loc[p].sha # sha

(***************************************************************************)
(* C2  Dedup Store uniqueness: hashed-objects/ holds at most one file      *)
(* named h or h.<ext> for every object hash h, and once an object was      *)
(* stored under h that file is h with the lower-cased extension of the     *)
(* first object stored (none, when that has more than 11 characters).      *)
(***************************************************************************)
C2_DedupStoreUniqueness ==
    \A h \in ObjectHashes :
        /\ Cardinality(StoreFilesOf(h)) <= 1
        /\ \A e \in firstStored :
              e[1] = h => StoreFilesOf(h) = {h \o KeptExt(e[2])}

\* the store holds a blob, and a later object with its hash and another extension
\* has been through copy_object_if_new_by_hash
C2_Witness ==
    /\ NoRunInProgress
    /\ \E e \in firstStored : \E i \in 2..Len(objectsTsv) :
          /\ StoreFilesOf(e[1]) # {}
          /\ rowRun[i] > 0
          /\ split(rstrip(objectsTsv[i], NL), TAB)[4] = e[1]
          /\ split(rstrip(objectsTsv[i], NL), TAB)[7] # KeptExt(e[2])
          /\ lastRun.outcome = "completed"

(***************************************************************************)
(* C3  Hash-Count correctness: whenever no run is in progress (and no      *)
(* invocation was killed), hash-count.tsv holds exactly one row for every  *)
(* object hash of the ledger, with the number of ledger rows whose column  *)
(* 4 is that hash.                                                         *)
(***************************************************************************)
C3_HashCountCorrect ==
    (NoRunInProgress /\ kills = 0 /\ lastRun.outcome # "none") =>
        \A h \in LedgerHashes :
            \E i \in 1..Len(hashCountTsv) :
                /\ hashCountTsv[i] = h \o <<TAB>> \o FormatInt(LedgerRowsWith(h)) \o <<NL>>
                /\ \A j \in 1..Len(hashCountTsv) :
                      split(hashCountTsv[j], TAB)[1] = h => j = i

(***************************************************************************)
(* C4  In-flight exclusion: a run that reaches the gate while the marker   *)
(* of its document hash exists returns at once: it leaves the ledger, the  *)
(* store, processed.tsv, the stamps and the markers as they are.           *)
(***************************************************************************)
C4_InflightExclusion ==
    [][\A p \in Procs :
          (pc[p] = "gate_inflight" /\ LockName(loc[p].sha) \in inflight /\ Acts(p))
              => /\ pc'[p] = "scan_loop"
                 /\ lastRun'.outcome = "skip_inflight"
                 /\ UNCHANGED <<objectsTsv, hashedDir, processedTsv, stamps, inflight,
                                objDir, hashCountTsv>>]_vars

\* a run was skipped at the in-flight check
C4_Witness ==
    /\ lastRun.outcome = "skip_inflight"
    /\ LockName(lastRun.sha) \in inflight

(***************************************************************************)
(* C5  Settling: process_pdf has the document's hash and stands at the     *)
(* gate only after wait_for_quiet_file saw the same size on two polls in   *)
(* a row, whatever sizes and absences the polls show.                      *)
(***************************************************************************)
C5_Settling ==
    \A p \in Procs : pc[p] = "gate_inflight" => loc[p].quiet

(***************************************************************************)
(* C6  Schema migration correctness: once ensure_layout has replaced a     *)
(* ledger of the 5-column version that had N data rows, the file is the    *)
(* 22-column header and N rows, row i being 3 blank fields, the 5 fields   *)
(* of the original row i, and 14 blank fields.                             *)
(***************************************************************************)
C6_SchemaMigration ==
    (ledger0 # <<>> /\ rstrip(ledger0[1], NL) = OLD_HEADER_5
        /\ rstrip(objectsTsv[1], NL) # OLD_HEADER_5) =>
        /\ Len(objectsTsv) = Len(ledger0)
        /\ objectsTsv[1] = OBJECTS_HEADER \o <<NL>>
        /\ Len(split(OBJECTS_HEADER, TAB)) = 22
        /\ \A i \in 2..Len(ledger0) :
              LET new == split(rstrip(objectsTsv[i], NL), TAB)
                  old == split(rstrip(ledger0[i], NL), TAB)
              IN  /\ objectsTsv[i][Len(objectsTsv[i])] = NL
                  /\ Len(old) = 5
                  /\ Len(new) = 22
                  /\ new = <<<<>>, <<>>, <<>>>> \o old \o [k \in 1..14 |-> <<>>]

\* a ledger of MaxRows rows, the last without its newline, has been migrated
C6_Witness ==
    /\ Len(ledger0) = MaxRows + 1
    /\ ledger0[Len(ledger0)][Len(ledger0[Len(ledger0)])] # NL
    /\ split(rstrip(ledger0[2], NL), TAB)[1] = <<>>
    /\ split(rstrip(ledger0[2], NL), TAB)[5] = <<>>
    /\ objectsTsv[1] = OBJECTS_HEADER \o <<NL>>
    /\ \E p \in Procs : pc[p] = "scan_once"

(***************************************************************************)
(* C7  Per-document failures never crash the scan/watch loop: when a run   *)
(* of process_pdf ends by an exception, the invocation is back in          *)
(* scan_once's loop with the rest of its listing.                          *)
(***************************************************************************)
C7_FailureKeepsLoop ==
    [][\A p \in Procs :
          (pc[p] = "finally" /\ loc[p].raised # "" /\ Acts(p))
              => pc'[p] = "scan_loop" /\ loc'[p].todo = loc[p].todo]_vars

C10_RecoveryFromInterruptedRun ==
    \A sha \in AllShas :
        [](KilledInFlight(sha)
              => <>(ProcessedRecordsOf(sha) # {} /\ LockName(sha) \notin inflight))

(***************************************************************************)
(* C11  Processed Record invariant: whenever no run for the document hash  *)
(* H is in progress, processed.tsv holds a record for H if and only if the *)
(* ledger holds a row for every object the extractor produces from the     *)
(* document with hash H (documents that have objects).                     *)
(***************************************************************************)
C11_ProcessedRecordInvariant ==
    \A sha \in DocShas :
        (ObjectsOfSha(sha) # {} /\ ~RunInProgressFor(sha)) =>
            (ProcessedRecordsOf(sha) # {} <=> LedgerCoversSha(sha))

(***************************************************************************)
(* C12  The ledger is append-only: every step of the program but the       *)
(* rename that ends the migration of a legacy ledger leaves the header and *)
(* the rows that objects.tsv has where they are; the file before the step  *)
(* is a prefix of the file after it.                                       *)
(***************************************************************************)
C12_LedgerAppendOnly ==
    [][(\A p \in Procs : ~(pc[p] = "migrate" /\ pc'[p] = "scan_once"))
          => IsPrefix(objectsTsv, objectsTsv')]_vars

\* a run has appended its rows beneath a header of the user's own and the row
\* that was there, after the program was started a second time
C12_Witness ==
    /\ ledger0 = CustomLedger
    /\ lastRun.outcome = "completed"
    /\ lastRun.rows > 0
    /\ fails + kills > 0
    /\ IsPrefix(CustomLedger, objectsTsv)

(***************************************************************************)
(* C13  File-name parsing: parse_mcro_fields gives three empty fields      *)
(* unless the name begins with MCRO_ and, without its .pdf extension, has  *)
(* at least four tokens between underscores (MCRO and three more); then it *)
(* gives the tokens 1, 2 and 3 as case number, filing type, filing date.   *)
(***************************************************************************)
C13_FilenameParsing ==
    (call.fn = "parse_mcro_fields" /\ call.done) =>
        call.ret =
            IF call.made.prefix = <<"M", "C", "R", "O", "_">> /\ Len(call.made.tokens) >= 3
            THEN <<call.made.tokens[1], call.made.tokens[2], call.made.tokens[3]>>
            ELSE <<<<>>, <<>>, <<>>>>

\* MCRO_12345_Motion_2024-01-01.pdf has been parsed
C13_Witness ==
    /\ call.fn = "parse_mcro_fields"
    /\ call.done
    /\ call.arg = <<"M", "C", "R", "O", "_", "1", "2", "3", "4", "5", "_",
                    "M", "o", "t", "i", "o", "n", "_",
                    "2", "0", "2", "4", "-", "0", "1", "-", "0", "1", ".", "p", "d", "f">>
    /\ call.ret = <<<<"1", "2", "3", "4", "5">>, <<"M", "o", "t", "i", "o", "n">>,
                    <<"2", "0", "2", "4", "-", "0", "1", "-", "0", "1">>>>

(***************************************************************************)
(* C14  Mutual exclusion per hash: no two invocations are between          *)
(* mark_inflight and clear_inflight for the same document hash at the same *)
(* time.                                                                   *)
(***************************************************************************)
C14_MutualExclusionPerHash ==
    \A p, q \in Procs :
        (p # q /\ pc[p] \in InFlight /\ pc[q] \in InFlight) => loc[p].sha # loc[q].sha

(***************************************************************************)
(* C15  Safe re-run after a partial run: once a run of process_pdf on a    *)
(* document has completed, whatever stopped earlier runs on it, the ledger *)
(* holds each pair of document and object path of that document once: no   *)
(* two of the document's rows have the same column 6.                      *)
(***************************************************************************)
C15_SafeRerunAfterPartialRun ==
    lastRun.outcome = "completed" =>
        \A i, j \in RowsOfDocument(lastRun.pdf) :
            LedgerFields(i)[6] = LedgerFields(j)[6] => i = j

(***************************************************************************)
(* C16  Partially written store files are not taken for entries: when a    *)
(* run of process_pdf has completed, every object it wrote a row for has   *)
(* gone through copy_object_if_new_by_hash, and hashed-objects/ holds a    *)
(* blob for its hash, also when a temporary file h<ext>.tmp was in the     *)
(* store before.                                                           *)
(***************************************************************************)
C16_TmpFilesAreNoEntries ==
    lastRun.outcome = "completed" =>
        \A i \in RowsOfRun(lastRun.run) : BlobsOf(LedgerFields(i)[4]) # {}

(***************************************************************************)
(* C17  Migration is atomic and recoverable: whenever the migration of a   *)
(* legacy ledger is interrupted, while the temporary file is written or    *)
(* before the rename, objects.tsv is the complete legacy file or the       *)
(* complete migrated file, and once ensure_layout has run again to its end *)
(* it is the migrated file, with every row of the legacy one.              *)
(***************************************************************************)
C17_MigrationAtomicRecoverable ==
    (ledger0 # <<>> /\ rstrip(ledger0[1], NL) = OLD_HEADER_5) =>
        /\ objectsTsv \in {ledger0, migrated_file(ledger0)}
        /\ Len(migrated_file(ledger0)) = Len(ledger0)
        /\ \A p \in Procs : pc[p] = "scan_once" => objectsTsv = migrated_file(ledger0)

\* a migration was killed with the temporary file half written, and ensure_layout
\* has run again
C17_Witness ==
    /\ lastRun.outcome = "killed_migrating"
    /\ 1 < lastRun.rows /\ lastRun.rows < Len(ledger0)
    /\ \E p \in Procs : pc[p] = "scan_once"
    /\ objectsTsv = migrated_file(ledger0)

(***************************************************************************)
(* C18  Signature blocks: a line of pdfsig's output changes the slots      *)
(* SIGk_CN, SIGk_TIME, SIGk_RANGE only of the block k whose header is the  *)
(* last header before it; a line of a block numbered above 4 changes no    *)
(* slot.                                                                   *)
(***************************************************************************)
C18_SignatureBlocks ==
    [][(call.fn = "parse_pdfsig" /\ call'.i = call.i + 1) =>
          \A k \in 1..4 :
              SigSlots(call'.sigs, k) # SigSlots(call.sigs, k)
                  => SigBlockOf(call.made, call'.i) = k]_vars

(***************************************************************************)
(* C19  Gate order and stamp backfill: process_pdf checks the in-flight    *)
(* marker, then processed.tsv, then the completion stamp; the first that   *)
(* is positive ends the run as skipped, the others pass to the next check. *)
(* On a stamp match exactly one record is appended to processed.tsv when   *)
(* the hash has none, and none otherwise.  A skipped run does not extract, *)
(* makes no marker and leaves the ledger, the store and hash-count.tsv.    *)
(***************************************************************************)
C19_GateOrderAndBackfill ==
    [][\A p \in Procs :
          Acts(p) =>
              /\ pc[p] = "gate_inflight" =>
                    IF LockName(loc[p].sha) \in inflight
                    THEN SkipsAs(p, "skip_inflight") /\ processedTsv' = processedTsv
                    ELSE PassesTo(p, "gate_processed")
              /\ pc[p] = "gate_processed" =>
                    IF ProcessedRecordsOf(loc[p].sha) # {}
                    THEN SkipsAs(p, "skip_processed") /\ processedTsv' = processedTsv
                    ELSE PassesTo(p, "gate_stamp")
              /\ pc[p] = "gate_stamp" =>
                    IF StampHolds(loc[p].pdf, loc[p].sha)
                    THEN /\ SkipsAs(p, "skip_stamp")
                         /\ IsPrefix(processedTsv, processedTsv')
                         /\ Len(processedTsv') =
                               Len(processedTsv)
                                 + (IF ProcessedRecordsOf(loc[p].sha) = {} THEN 1 ELSE 0)
                         /\ split(processedTsv'[Len(processedTsv')], TAB)[1] = loc[p].sha
                    ELSE PassesTo(p, "mark")]_vars

\* a run was skipped at the stamp, and the record its hash lacked was appended
C19_Witness ==
    /\ lastRun.outcome = "skip_stamp"
    /\ lastRun.recs = 1
    /\ lastRun.rows = 0
    /\ Cardinality(ProcessedRecordsOf(lastRun.sha)) = 1

(***************************************************************************)
(* C20  The rows of a run belong to the run's document: when a run of      *)
(* process_pdf on the document D has completed, each row it appended to    *)
(* objects.tsv has the hash and the path of an object the extractor        *)
(* produces from D, and the rows are no more than those objects.           *)
(***************************************************************************)
C20_RowsBelongToDocument ==
    (lastRun.outcome = "completed" /\ lastRun.pdf \in DOMAIN pdfDir) =>
        With(MutoolOutput(pdfDir[lastRun.pdf]), LAMBDA objects :
            /\ Cardinality(RowsOfRun(lastRun.run)) <= Cardinality(objects)
            /\ \A i \in RowsOfRun(lastRun.run) :
                  \E o \in objects :
                      /\ LedgerFields(i)[4] = Sha256Hex(o.data)
                      /\ LedgerFields(i)[6] = safe_name(lastRun.pdf) \o <<"/">> \o o.fn)

(***************************************************************************)
(* C21  The marker covers the whole active run: whenever an invocation is  *)
(* between its mark_inflight and its clear_inflight for a document hash,   *)
(* the marker file of that hash exists, whatever the other invocation      *)
(* does meanwhile.                                                         *)
(***************************************************************************)
C21_MarkerCoversActiveRun ==
    \A p \in Procs : pc[p] \in InFlight => LockName(loc[p].sha) \in inflight

====
